---------------------------- MODULE Spec2Model ----------------------------
(***************************************************************************)
(* A model of the A-share core of TradingAgents:                           *)
(*   - AStockCode   (tradingagents/dataflows/astock_data/stock_code.py)    *)
(*   - AStockCalendar (.../astock_data/market_calendar.py)                 *)
(*                                                                         *)
(* A text is a sequence of characters; a character is a one-element TLA+   *)
(* string ("6", "S", ".", " "), and "u0660" / "u0666" stand for the two    *)
(* non-ASCII decimal digits U+0660 and U+0666 (ARABIC-INDIC DIGIT ZERO and *)
(* SIX), which Python 3's \d matches in a str pattern.                     *)
(***************************************************************************)
EXTENDS Integers, Sequences, FiniteSets, TLC

VARIABLES
    code,           \* the argument handed to AStockCode: [kind, int, str]
    op,             \* the AStockCode classmethod that ran last ("none" before any)
    std_code,       \* what standardize returned (None before it ran)
    valid,          \* what is_valid returned
    info,           \* what get_market_info returned
    trading_days,   \* AStockCalendar._trading_days: None or <<the list>>
    holidays,       \* AStockCalendar._holidays: None or <<the list>>
    cache_file,     \* trading_calendar.json: None (no file) or <<its content>>
    call,           \* the calendar method that has just returned, or Idle
    writer,         \* a refresh_calendar running in another thread: the
                    \* statement it is about to run
    df,             \* the DataFrame handed to AStockDataValidator
    report,         \* the report dict get_validation_report builds, or the one
                    \* handed to _calculate_overall_score (None before)
    vcall           \* the validator method that has just returned, or NoCall

codeVars == <<code, op, std_code, valid, info>>

calendarVars == <<trading_days, holidays, cache_file, call>>

threadVars == <<writer>>

validatorVars == <<df, report, vcall>>

nonCodeVars == <<calendarVars, threadVars, validatorVars>>

nonCalendarVars == <<codeVars, threadVars, validatorVars>>

vars == <<code, op, std_code, valid, info, trading_days, holidays, cache_file, call,
          writer, df, report, vcall>>

-----------------------------------------------------------------------------
(* Characters and Python's str methods                                     *)

\* Python's None, and the value every absent result takes.
None == <<>>

\* Python's {} (get_market_info's answer for an unrecognised code).
EmptyDict == <<>>

AsciiDigits == {"0", "1", "2", "3", "4", "5", "6", "7", "8", "9"}

UnicodeDigits == {"u0660", "u0666"}

Whitespace == {" "}

\* the decimal digit character of n \in 0..9
DigitChar(n) == <<"0", "1", "2", "3", "4", "5", "6", "7", "8", "9">>[n + 1]

\* str.upper() on one character: the lower-case letters of the alphabet used
\* here map to their capitals, every other character is unchanged.
UpperChar(c) ==
    CASE c = "s" -> "S"
      [] c = "h" -> "H"
      [] c = "z" -> "Z"
      [] c = "b" -> "B"
      [] c = "j" -> "J"
      [] c = "x" -> "X"
      [] OTHER   -> c

upper(s) == [i \in 1..Len(s) |-> UpperChar(s[i])]

RECURSIVE lstrip(_)
lstrip(s) == IF s # <<>> /\ Head(s) \in Whitespace THEN lstrip(Tail(s)) ELSE s

RECURSIVE rstrip(_)
rstrip(s) ==
    IF s # <<>> /\ s[Len(s)] \in Whitespace
    THEN rstrip(SubSeq(s, 1, Len(s) - 1))
    ELSE s

strip(s) == rstrip(lstrip(s))

\* str(n) for an integer n: its decimal digits, with a leading "-" if negative.
RECURSIVE NatToStr(_)
NatToStr(n) ==
    IF n < 10 THEN <<DigitChar(n)>>
    ELSE Append(NatToStr(n \div 10), DigitChar(n % 10))

IntToStr(n) == IF n < 0 THEN <<"-">> \o NatToStr(0 - n) ELSE NatToStr(n)

\* str(code), line 66: the text itself, or the decimal text of an integer.
str(c) == IF c.kind = "int" THEN IntToStr(c.int) ELSE c.str

\* Python truthiness of the argument (`not code`, line 63): None, "" and 0
\* are falsy.
Truthy(c) ==
    CASE c.kind = "none" -> FALSE
      [] c.kind = "int"  -> c.int # 0
      [] OTHER           -> c.str # <<>>

-----------------------------------------------------------------------------
(* AStockCode                                                              *)

\* the length of the numeric id, \d{6}
CodeLen == 6

\* the length of the prefix that decides market and board, code[:3]
PrefixLen == 3

SH == <<"S", "H">>

SZ == <<"S", "Z">>

BJ == <<"B", "J">>

\* the alternation (SH|SZ|BJ) of the two patterns with a market
Markets == {SH, SZ, BJ}

\* \d: Python 3 matches every Unicode decimal digit in a str pattern
IsDigit(c) == c \in AsciiDigits \cup UnicodeDigits

\* does \d{n} match s at position i (1-based)?
DigitsAt(s, i, n) ==
    /\ i + n - 1 <= Len(s)
    /\ \A k \in i..(i + n - 1) : IsDigit(s[k])

\* does (SH|SZ|BJ) match s at position i?
MarketAt(s, i) == i + 1 <= Len(s) /\ SubSeq(s, i, i + 1) \in Markets

\* the keys of BOARD_DEFINITIONS that map to each market
BOARD_DEFINITIONS ==
    [p \in { <<"6","0","0">>, <<"6","0","1">>, <<"6","0","3">>, <<"6","0","5">>,
             <<"0","0","0">>, <<"0","0","1">>, <<"0","0","2">>, <<"0","0","3">>,
             <<"3","0","0">>, <<"3","0","1">>, <<"6","8","8">>, <<"6","8","9">>,
             <<"8","3","0">>, <<"8","3","1">>, <<"8","3","2">>, <<"8","3","3">>,
             <<"8","3","5">>, <<"8","3","6">>, <<"8","3","7">>, <<"8","3","8">>,
             <<"8","3","9">> } |->
        CASE p[1] = "6" -> SH
          [] p[1] = "8" -> BJ
          [] OTHER      -> SZ]

\* _infer_market: the market of the first key the 3-character prefix starts
\* with; prefix and keys are both 3 long, so startswith is equality.
infer_market(c) ==
    IF Len(c) # CodeLen THEN None
    ELSE LET prefix == SubSeq(c, 1, PrefixLen)
         IN  IF prefix \in DOMAIN BOARD_DEFINITIONS
             THEN BOARD_DEFINITIONS[prefix]
             ELSE None

\* the two fields of the f-string swapped
CanonicalSwapped(stock_code, market) == market \o <<".">> \o stock_code

\* f"{stock_code}.{market}"
Canonical(stock_code, market) == stock_code \o <<".">> \o market

\* re.match(r'(\d{6})\.?(SH|SZ|BJ)', s): anchored at the start only.  \.? is
\* greedy, and giving the dot back cannot help: the market would then have
\* to start with the dot.
MatchSuffix(s) ==
    /\ DigitsAt(s, 1, CodeLen)
    /\ MarketAt(s, IF Len(s) > CodeLen /\ s[CodeLen + 1] = "."
                   THEN CodeLen + 2 ELSE CodeLen + 1)

SuffixMarket(s) ==
    LET i == IF s[CodeLen + 1] = "." THEN CodeLen + 2 ELSE CodeLen + 1
    IN  SubSeq(s, i, i + 1)

\* re.match(r'(SH|SZ|BJ)(\d{6})', s)
MatchPrefix(s) == MarketAt(s, 1) /\ DigitsAt(s, 3, CodeLen)

\* re.match(r'(\d{6})', s)
MatchNumeric(s) == DigitsAt(s, 1, CodeLen)

\* AStockCode.standardize
standardize(c) ==
    IF ~Truthy(c) THEN None
    ELSE LET s == upper(strip(str(c)))
         IN  IF MatchSuffix(s)
             THEN Canonical(SubSeq(s, 1, CodeLen), SuffixMarket(s))
             ELSE IF MatchPrefix(s)
             THEN Canonical(SubSeq(s, 3, CodeLen + 2), SubSeq(s, 1, 2))
             ELSE IF MatchNumeric(s)
                     /\ infer_market(SubSeq(s, 1, CodeLen)) # None
             THEN Canonical(SubSeq(s, 1, CodeLen),
                            infer_market(SubSeq(s, 1, CodeLen)))
             ELSE None

\* AStockCode.is_valid
is_valid(c) == standardize(c) # None

\* the five boards get_market_info names
MainBoard == "MainBoard"               \* "主板"

SmeBoard == "SmeBoard"                 \* "中小板"

ChiNext == "ChiNext"                   \* "创业板"

StarMarket == "StarMarket"             \* "科创板"

BeijingExchange == "BeijingExchange"   \* "北交所"

\* the market test moved to the head of the if/elif chain
BoardOfMarketFirst(prefix, market) ==
    IF market = BJ THEN BeijingExchange
    ELSE IF prefix = <<"0","0","2">> \/ prefix = <<"0","0","3">> THEN SmeBoard
    ELSE IF prefix = <<"3","0","0">> \/ prefix = <<"3","0","1">> THEN ChiNext
    ELSE IF prefix = <<"6","8","8">> \/ prefix = <<"6","8","9">> THEN StarMarket
    ELSE MainBoard

\* the if/elif chain of get_market_info, lines 133-141
BoardOf(prefix, market) ==
    IF prefix = <<"0","0","2">> \/ prefix = <<"0","0","3">> THEN SmeBoard
    ELSE IF prefix = <<"3","0","0">> \/ prefix = <<"3","0","1">> THEN ChiNext
    ELSE IF prefix = <<"6","8","8">> \/ prefix = <<"6","8","9">> THEN StarMarket
    ELSE IF market = BJ THEN BeijingExchange
    ELSE MainBoard

\* a text wrapped as an argument
Text(s) == [kind |-> "str", int |-> 0, str |-> s]

\* AStockCode.get_market_info; std_code.split('.') cuts at the only dot
get_market_info(c) ==
    LET std == standardize(c)
    IN  IF std = None THEN EmptyDict
        ELSE LET stock_code == SubSeq(std, 1, CodeLen)
                 market     == SubSeq(std, CodeLen + 2, Len(std))
                 prefix     == SubSeq(stock_code, 1, PrefixLen)
             IN  [code      |-> std,
                  pure_code |-> stock_code,
                  market    |-> market,
                  board     |-> BoardOf(prefix, market),
                  prefix    |-> prefix]

-----------------------------------------------------------------------------
(* AStockCalendar: dates                                                   *)
(*                                                                         *)
(* A date is the number of days since 2024-01-01, a Monday; it stands for  *)
(* the midnight timestamp of that day.  A model year is one week long, so  *)
(* that a few years fit in a small span of dates and every year still has  *)
(* working days and a weekend.                                             *)

\* an Optional value that is present
Some(x) == <<x>>

\* the year of the fixed holiday list, and the first year the model has
FirstYear == 2024

\* the years the model has
NumYears == 2

\* datetime.weekday() counts 0..6 from Monday
DaysPerWeek == 7

\* weekday() < 5: Monday to Friday
WeekendStart == 5

DaysPerYear == DaysPerWeek

LastYear == FirstYear + NumYears - 1

Years == FirstYear..LastYear

Dates == 0..(NumYears * DaysPerYear - 1)

Year(d) == FirstYear + (d \div DaysPerYear)

weekday(d) == d % DaysPerWeek

\* d.strftime('%Y-%m-%d'): the year and the day within it, counted from 1
strftime(d) == <<Year(d), (d % DaysPerYear) + 1>>

\* pd.to_datetime of a 'YYYY-MM-DD' text
to_datetime(t) == (t[1] - FirstYear) * DaysPerYear + (t[2] - 1)

DateStrs == { strftime(d) : d \in Dates }

\* the days from datetime(year, 1, 1) to datetime(year, 12, 31), ascending
YearDays(y) == [i \in 1..DaysPerYear |-> (y - FirstYear) * DaysPerYear + (i - 1)]

Reverse(s) == [i \in 1..Len(s) |-> s[Len(s) + 1 - i]]

SeqToSet(s) == { s[i] : i \in 1..Len(s) }

\* Python's sorted(): insertion of each element into a sorted prefix
RECURSIVE Insert(_, _)
Insert(x, s) ==
    IF s = <<>> THEN <<x>>
    ELSE IF x < Head(s) THEN <<x>> \o s
    ELSE <<Head(s)>> \o Insert(x, Tail(s))

RECURSIVE InsertionSort(_)
InsertionSort(s) == IF s = <<>> THEN <<>> ELSE Insert(Head(s), InsertionSort(Tail(s)))

\* the list returned as it was built
Unsorted(s) == s

sorted(s) == InsertionSort(s)

\* min() and max() of a non-empty list
Min(s) == CHOOSE x \in SeqToSet(s) : \A y \in SeqToSet(s) : x <= y

Max(s) == CHOOSE x \in SeqToSet(s) : \A y \in SeqToSet(s) : y <= x

\* a time of day, <<hour, minute>>, and the order of two of them
Midnight == <<0, 0>>

TimeLeq(s, t) == s[1] < t[1] \/ (s[1] = t[1] /\ s[2] <= t[2])

\* a datetime (a Timestamp): a day and a time of day; the dates the calendar
\* keeps are days, each standing for the midnight that begins it
datetime(day, time) == [day |-> day, time |-> time]

Leq(x, y) == x.day < y.day \/ (x.day = y.day /\ TimeLeq(x.time, y.time))

\* [d for d in lst if start <= d <= end], start and end being datetimes
Between(lst, start, end) ==
    SelectSeq(lst, LAMBDA d : /\ Leq(start, datetime(d, Midnight))
                              /\ Leq(datetime(d, Midnight), end))

-----------------------------------------------------------------------------
(* AStockCalendar: the calendar source and the fallback                    *)

\* the days ak.tool_trade_date_hist_sina() lists, each trade date in one row:
\* the working days on which the exchange was open.  2024-01-01 is closed,
\* as in the fixed list below; the two other closures are known to the
\* source only.
SinaClosed == { <<2024, 1>>, <<2024, 2>>, <<2025, 3>> }

SinaRows(y) ==
    SelectSeq(YearDays(y),
              LAMBDA d : weekday(d) < WeekendStart /\ strftime(d) \notin SinaClosed)

\* what one call of the source gives: the table in ascending or descending
\* date order, or an empty table
RowOrders == {"asc", "desc", "empty"}

\* the outcomes of the source over one fetch of start_year..end_year: it
\* raises in some iteration, or answers every iteration.  With no year to
\* loop over the source is not called at all.
Outcomes(start_year, end_year) ==
    IF start_year > end_year THEN { <<>> }
    ELSE { [y \in start_year..end_year |-> "raise"] }
         \cup [start_year..end_year -> RowOrders]

Raises(o) == \E y \in DOMAIN o : o[y] = "raise"

\* the rows of the table whose year is `year`, in the table's order
YearData(year, order) ==
    CASE order = "asc"  -> SinaRows(year)
      [] order = "desc" -> Reverse(SinaRows(year))
      [] OTHER          -> <<>>

\* the holidays list of _generate_default_calendar: 2024-01-01 (a Monday)
\* and a Saturday, 2024-01-06
FixedHolidays == { <<2024, 1>>, <<2024, 6>> }

\* _generate_default_calendar: every working day of every year that is not
\* in the fixed list
RECURSIVE generate_default_calendar(_, _)
generate_default_calendar(start_year, end_year) ==
    IF start_year > end_year THEN <<>>
    ELSE SelectSeq(YearDays(start_year),
                   LAMBDA d : weekday(d) < WeekendStart
                              /\ strftime(d) \notin FixedHolidays)
         \o generate_default_calendar(start_year + 1, end_year)

\* the loop of _fetch_trading_calendar over the years
RECURSIVE FetchedRows(_, _, _)
FetchedRows(start_year, end_year, o) ==
    IF start_year > end_year THEN <<>>
    ELSE YearData(start_year, o[start_year])
         \o FetchedRows(start_year + 1, end_year, o)

\* _fetch_trading_calendar under the source outcome o
fetch_trading_calendar(start_year, end_year, o) ==
    IF Raises(o)
    THEN sorted(generate_default_calendar(start_year, end_year))
    ELSE sorted(FetchedRows(start_year, end_year, o))

\* the holidays taken to be the weekend days between the first and the last
\* trading day
WeekendHolidays(td) ==
    IF td = None \/ td[1] = <<>> THEN <<>>
    ELSE LET start_date == Min(td[1])
             end_date   == Max(td[1])
             all_days   == [i \in 1..(end_date - start_date + 1) |-> start_date + i - 1]
         IN  SelectSeq(all_days, LAMBDA day : weekday(day) >= WeekendStart)

\* _get_holidays_from_trading_days for a _trading_days of td (None or a list)
get_holidays_from_trading_days(td) ==
    IF td = None \/ td[1] = <<>> THEN <<>>
    ELSE LET start_date  == Min(td[1])
             end_date    == Max(td[1])
             all_days    == [i \in 1..(end_date - start_date + 1) |-> start_date + i - 1]
             trading_set == SeqToSet(td[1])
         IN  SelectSeq(all_days, LAMBDA day : day \notin trading_set)

\* a snapshot that keeps the trading days only
SnapshotOfTradingDays(td, hol) ==
    [trading_days |-> [i \in 1..Len(td) |-> strftime(td[i])],
     holidays     |-> <<>>]

\* the data _save_calendar_cache dumps
Snapshot(td, hol) ==
    [trading_days |-> [i \in 1..Len(td) |-> strftime(td[i])],
     holidays     |-> [i \in 1..Len(hol) |-> strftime(hol[i])]]

\* the start_year parameter's default
DefaultStartYear == 2020

\* datetime.now().year: the clock stands in the first year
NowYear == FirstYear

\* the years refresh_calendar() covers with its defaults; the years before
\* FirstYear hold no date of the model
DefaultStart == IF DefaultStartYear < FirstYear THEN FirstYear ELSE DefaultStartYear

DefaultEnd == IF NowYear + 1 > LastYear THEN LastYear ELSE NowYear + 1

\* is_trading_day for a _trading_days list td: replace(hour=0, ...) takes
\* the date to its midnight, `in` looks it up
is_trading_day(td, date) == date.day \in SeqToSet(td)

\* next_trading_day counting only the days after the date
NextTradingDayAfter(td, date, n) ==
    LET future_days == SelectSeq(td, LAMBDA d : d > date)
    IN  IF Len(future_days) >= n THEN Some(future_days[n]) ELSE None

\* next_trading_day for a list td: future_days[n-1], counted from 0
next_trading_day(td, date, n) ==
    LET future_days == SelectSeq(td, LAMBDA d : d >= date)
    IN  IF Len(future_days) >= n THEN Some(future_days[n]) ELSE None

\* previous_trading_day for a list td: past_days[-n]
previous_trading_day(td, date, n) ==
    LET past_days == SelectSeq(td, LAMBDA d : d <= date)
    IN  IF Len(past_days) >= n THEN Some(past_days[Len(past_days) + 1 - n])
        ELSE None

\* the two times get_trading_hours puts after the date
OpenTime == <<9, 30>>

CloseTime == <<15, 0>>

\* get_trading_hours for a list td: one (open, close) tuple, or None
get_trading_hours(td, date) ==
    IF is_trading_day(td, datetime(date, Midnight))
    THEN Some(<<datetime(date, OpenTime), datetime(date, CloseTime)>>)
    ELSE None

\* the four times of is_trading_time
morning_start == <<9, 30>>

morning_end == <<11, 30>>

afternoon_start == <<13, 0>>

afternoon_end == <<15, 0>>

\* is_trading_time for a list td
is_trading_time(td, datetime_obj) ==
    IF ~is_trading_day(td, datetime(to_datetime(strftime(datetime_obj.day)), Midnight))
    THEN FALSE
    ELSE LET current_time == datetime_obj.time
         IN  \/ TimeLeq(morning_start, current_time) /\ TimeLeq(current_time, morning_end)
             \/ TimeLeq(afternoon_start, current_time) /\ TimeLeq(current_time, afternoon_end)

\* the source was not called
NoSource == <<>>

\* no call has returned since the last one was consumed.  A returned call
\* holds its name, its arguments (a and b the days or years, at and bt the
\* times of day that came with them, n the count), what it returned or
\* raised, whether it refreshed the calendar and what the source did then.
Idle == [op |-> "idle", a |-> 0, b |-> 0, n |-> 0, at |-> Midnight, bt |-> Midnight,
         ret |-> <<>>, refreshed |-> FALSE, raised |-> "none", source |-> NoSource]

\* no refresh_calendar runs in another thread
NoWriter == "idle"

\* pd.DataFrame(): no column, no row
EmptyFrame == [columns |-> {}, rows |-> <<>>]

\* no validator method has returned since the last one was consumed.  A
\* returned call holds its name, the start_date and end_date it was given,
\* what it returned or raised, and what the calendar source did if a query
\* of the validator's calendar refreshed it.
NoCall == [op |-> "none", start |-> 0, end |-> 0, ret |-> <<>>, raised |-> "none",
           source |-> NoSource]

\* no validator in play
ValidatorNone ==
    /\ df = EmptyFrame
    /\ report = None
    /\ vcall = NoCall

\* __init__ on a cache directory with no snapshot
CalendarNew ==
    /\ trading_days = None
    /\ holidays = None
    /\ cache_file = None
    /\ call = Idle
    /\ writer = NoWriter

-----------------------------------------------------------------------------
(* The arguments AStockCode is driven with                                 *)

\* how far the length of a numeric portion may differ from CodeLen
MaxSlack == 1

\* three-digit prefixes: every key of BOARD_DEFINITIONS with its neighbours
\* (among them 834, 004, 302, 602, 604, 687, 690, 829, 840) and three far
\* from every key
PrefixNums ==
    (0..4) \cup (299..302) \cup (599..606) \cup (687..690) \cup (829..840)
        \cup {123, 870, 999}

Digits3(n) ==
    <<DigitChar(n \div 100), DigitChar((n \div 10) % 10), DigitChar(n % 10)>>

TailDigits == {"0", "9"}

Tails ==
    UNION { [1..k -> TailDigits] :
              k \in (CodeLen - PrefixLen - MaxSlack)..(CodeLen - PrefixLen + MaxSlack) }

\* six non-ASCII decimal digits
UnicodeNumeric == <<"u0666", "u0660", "u0660", "u0660", "u0660", "u0660">>

Numerics == { Digits3(p) \o t : p \in PrefixNums, t \in Tails } \cup {UnicodeNumeric}

\* what surrounds the code: nothing, one trailing character, blanks on both sides
Wraps == { <<<<>>, <<>>>>, <<<<>>, <<"X">>>>, <<<<" ">>, <<" ">>>> }

Pres == { <<>>, SH, <<"s", "z">> }

Sufs ==
    { <<>>, SH, <<".", "S", "Z">>, <<".", "S", "H">>, <<".", "b", "j">>,
      <<".", "X", "X">> }

\* texts that hold no six digits at all
JunkTexts ==
    { <<>>, <<" ">>, <<"1">>, <<"1", "2", "3">>, SH, <<"S", "H", ".">>,
      <<"X", "X", "X", "X", "X", "X">> }

TextInputs ==
    { w[1] \o p \o n \o s \o w[2] :
        w \in Wraps, p \in Pres, n \in Numerics, s \in Sufs }
    \cup JunkTexts

IntInputs == {0, 12345, 600000, 834001, 1234567, 0 - 600000}

Inputs ==
    { Text(s) : s \in TextInputs }
    \cup { [kind |-> "int", int |-> n, str |-> <<>>] : n \in IntInputs }
    \cup { [kind |-> "none", int |-> 0, str |-> <<>>] }

-----------------------------------------------------------------------------
(* A caller of AStockCode: one argument, one classmethod applied to it     *)

InitCode ==
    /\ code \in Inputs
    /\ op = "none"
    /\ std_code = None
    /\ valid = FALSE
    /\ info = EmptyDict
    /\ CalendarNew
    /\ ValidatorNone

Standardize ==
    /\ op = "none"
    /\ op' = "standardize"
    /\ std_code' = standardize(code)
    /\ UNCHANGED <<code, valid, info>>
    /\ UNCHANGED nonCodeVars

IsValid ==
    /\ op = "none"
    /\ op' = "is_valid"
    /\ valid' = is_valid(code)
    /\ UNCHANGED <<code, std_code, info>>
    /\ UNCHANGED nonCodeVars

GetMarketInfo ==
    /\ op = "none"
    /\ op' = "get_market_info"
    /\ info' = get_market_info(code)
    /\ UNCHANGED <<code, std_code, valid>>
    /\ UNCHANGED nonCodeVars

NextCode == Standardize \/ IsValid \/ GetMarketInfo

SpecCode == InitCode /\ [][NextCode]_vars

-----------------------------------------------------------------------------
(* AStockCalendar: one instance at a time on one cache directory           *)

\* how far next_trading_day and previous_trading_day are asked to count
MaxN == 2

\* the argument of the AStockCode caller while the calendar is exercised
NoCode == [kind |-> "none", int |-> 0, str |-> <<>>]

InitCalendar ==
    /\ code = NoCode
    /\ op = "none"
    /\ std_code = None
    /\ valid = FALSE
    /\ info = EmptyDict
    /\ CalendarNew
    /\ ValidatorNone

\* refresh_calendar(start_year, end_year) under the source outcome o:
\* fetch, derive the holidays, overwrite the snapshot
Refresh(start_year, end_year, o) ==
    LET td  == fetch_trading_calendar(start_year, end_year, o)
        hol == get_holidays_from_trading_days(Some(td))
    IN  /\ trading_days' = Some(td)
        /\ holidays' = Some(hol)
        /\ cache_file' = Some(Snapshot(td, hol))

\* a refresh before every query, over the fallback when the source was not
\* asked
RefreshEveryQuery(start_year, end_year, o) ==
    Refresh(start_year, end_year,
            IF o = NoSource THEN [y \in start_year..end_year |-> "raise"] ELSE o)

\* `if self._trading_days is None: self.refresh_calendar(...)`
LazyRefresh(start_year, end_year, o) ==
    IF trading_days = None
    THEN Refresh(start_year, end_year, o)
    ELSE UNCHANGED <<trading_days, holidays, cache_file>>

\* the source outcomes a lazy refresh may meet
LazyOutcomes(start_year, end_year) ==
    IF trading_days = None THEN Outcomes(start_year, end_year)
    ELSE { NoSource }

\* the times of day a date argument comes with: none, or half past ten
DayTimes == { Midnight, <<10, 30>> }

\* the times of day is_trading_time is asked about
ClockTimes == { Midnight, <<9, 29>>, <<9, 30>>, <<11, 30>>, <<11, 31>>, <<12, 0>>,
                <<12, 59>>, <<13, 0>>, <<15, 0>>, <<15, 1>> }

Returned(name, a, b, n, ret, o) ==
    [op |-> name, a |-> a, b |-> b, n |-> n, at |-> Midnight, bt |-> Midnight,
     ret |-> ret, refreshed |-> (trading_days = None), raised |-> "none",
     source |-> o]

\* AStockCalendar(cache_dir): a new instance on the same cache directory;
\* __init__ sets both lists to None and _load_calendar_cache reads the
\* snapshot if there is one
Construct ==
    /\ call = Idle
    /\ IF cache_file = None
       THEN trading_days' = None /\ holidays' = None
       ELSE /\ trading_days' =
                Some([i \in 1..Len(cache_file[1].trading_days) |->
                         to_datetime(cache_file[1].trading_days[i])])
            /\ holidays' =
                Some([i \in 1..Len(cache_file[1].holidays) |->
                         to_datetime(cache_file[1].holidays[i])])
    /\ UNCHANGED <<cache_file, call>>
    /\ UNCHANGED nonCalendarVars

\* refresh_calendar(start_year, end_year) called by the owner
RefreshCalendar ==
    /\ call = Idle
    /\ \E start_year \in Years, end_year \in Years :
         \E o \in Outcomes(start_year, end_year) :
            /\ Refresh(start_year, end_year, o)
            /\ call' = [Returned("refresh_calendar", start_year, end_year, 0, None, o)
                          EXCEPT !.refreshed = TRUE]
    /\ UNCHANGED nonCalendarVars

\* refresh_calendar() with its default years
RefreshCalendarDefault ==
    /\ call = Idle
    /\ \E o \in Outcomes(DefaultStart, DefaultEnd) :
            /\ Refresh(DefaultStart, DefaultEnd, o)
            /\ call' = [Returned("refresh_calendar", DefaultStart, DefaultEnd, 0, None, o)
                          EXCEPT !.refreshed = TRUE]
    /\ UNCHANGED nonCalendarVars

\* is_trading_day(date): date is a text or a datetime, with or without a
\* time of day
IsTradingDay ==
    /\ call = Idle
    /\ \E day \in Dates, time \in DayTimes :
         \E o \in LazyOutcomes(DefaultStart, DefaultEnd) :
            /\ LazyRefresh(DefaultStart, DefaultEnd, o)
            /\ call' = [Returned("is_trading_day", day, day, 0,
                                 is_trading_day(trading_days'[1], datetime(day, time)), o)
                          EXCEPT !.at = time, !.bt = time]
    /\ UNCHANGED nonCalendarVars

\* get_trading_days(start_date, end_date): each date a text pd.to_datetime
\* reads, with or without a time of day
GetTradingDays ==
    /\ call = Idle
    /\ \E start_date \in DateStrs, end_date \in DateStrs :
       \E start_time \in DayTimes, end_time \in DayTimes :
         LET start == datetime(to_datetime(start_date), start_time)
             end   == datetime(to_datetime(end_date), end_time)
         IN  \E o \in LazyOutcomes(Year(start.day), Year(end.day)) :
                /\ LazyRefresh(Year(start.day), Year(end.day), o)
                /\ call' = [Returned("get_trading_days", start.day, end.day, 0,
                                     Between(trading_days'[1], start, end), o)
                              EXCEPT !.at = start_time, !.bt = end_time]
    /\ UNCHANGED nonCalendarVars

\* count_trading_days(start_date, end_date): len(get_trading_days(...))
CountTradingDays ==
    /\ call = Idle
    /\ \E start_date \in DateStrs, end_date \in DateStrs :
       \E start_time \in DayTimes, end_time \in DayTimes :
         LET start == datetime(to_datetime(start_date), start_time)
             end   == datetime(to_datetime(end_date), end_time)
         IN  \E o \in LazyOutcomes(Year(start.day), Year(end.day)) :
                /\ LazyRefresh(Year(start.day), Year(end.day), o)
                /\ call' = [Returned("count_trading_days", start.day, end.day, 0,
                                     Len(Between(trading_days'[1], start, end)), o)
                              EXCEPT !.at = start_time, !.bt = end_time]
    /\ UNCHANGED nonCalendarVars

\* next_trading_day(date, n)
NextTradingDay ==
    /\ call = Idle
    /\ \E date \in DateStrs, n \in 1..MaxN :
         \E o \in LazyOutcomes(DefaultStart, DefaultEnd) :
            /\ LazyRefresh(DefaultStart, DefaultEnd, o)
            /\ call' = Returned("next_trading_day",
                                to_datetime(date), to_datetime(date), n,
                                next_trading_day(trading_days'[1], to_datetime(date), n),
                                o)
    /\ UNCHANGED nonCalendarVars

\* previous_trading_day(date, n)
PreviousTradingDay ==
    /\ call = Idle
    /\ \E date \in DateStrs, n \in 1..MaxN :
         \E o \in LazyOutcomes(DefaultStart, DefaultEnd) :
            /\ LazyRefresh(DefaultStart, DefaultEnd, o)
            /\ call' = Returned("previous_trading_day",
                                to_datetime(date), to_datetime(date), n,
                                previous_trading_day(trading_days'[1], to_datetime(date), n),
                                o)
    /\ UNCHANGED nonCalendarVars

\* get_holidays(start_date, end_date): refreshes with the defaults when both
\* lists are None, derives the holidays when only they are
GetHolidays ==
    /\ call = Idle
    /\ \E start_date \in DateStrs, end_date \in DateStrs :
         LET start == to_datetime(start_date)
             end   == to_datetime(end_date)
             both  == holidays = None /\ trading_days = None
         IN  \E o \in (IF both THEN Outcomes(DefaultStart, DefaultEnd) ELSE { NoSource }) :
               /\ IF holidays = None
                  THEN IF trading_days = None
                       THEN Refresh(DefaultStart, DefaultEnd, o)
                       ELSE /\ holidays' =
                                  Some(get_holidays_from_trading_days(trading_days))
                            /\ UNCHANGED <<trading_days, cache_file>>
                  ELSE UNCHANGED <<trading_days, holidays, cache_file>>
               /\ call' = [Returned("get_holidays", start, end, 0,
                                    Between(holidays'[1], datetime(start, Midnight),
                                            datetime(end, Midnight)), o)
                             EXCEPT !.refreshed = both]
    /\ UNCHANGED nonCalendarVars

\* get_trading_hours(date): date a text of the form %Y-%m-%d
GetTradingHours ==
    /\ call = Idle
    /\ \E date \in DateStrs :
         \E o \in LazyOutcomes(DefaultStart, DefaultEnd) :
            /\ LazyRefresh(DefaultStart, DefaultEnd, o)
            /\ call' = Returned("get_trading_hours",
                                to_datetime(date), to_datetime(date), 0,
                                get_trading_hours(trading_days'[1], to_datetime(date)), o)
    /\ UNCHANGED nonCalendarVars

\* is_trading_time(datetime_obj)
IsTradingTime ==
    /\ call = Idle
    /\ \E day \in Dates, time \in ClockTimes :
         \E o \in LazyOutcomes(DefaultStart, DefaultEnd) :
            /\ LazyRefresh(DefaultStart, DefaultEnd, o)
            /\ call' = [Returned("is_trading_time", day, day, 0,
                                 is_trading_time(trading_days'[1], datetime(day, time)), o)
                          EXCEPT !.at = time, !.bt = time]
    /\ UNCHANGED nonCalendarVars

\* the caller takes the returned value
Return ==
    /\ call # Idle
    /\ call' = Idle
    /\ UNCHANGED <<trading_days, holidays, cache_file>>
    /\ UNCHANGED nonCalendarVars

NextCalendar ==
    \/ Construct
    \/ RefreshCalendar
    \/ RefreshCalendarDefault
    \/ IsTradingDay
    \/ GetTradingDays
    \/ CountTradingDays
    \/ NextTradingDay
    \/ PreviousTradingDay
    \/ GetHolidays
    \/ GetTradingHours
    \/ IsTradingTime
    \/ Return

SpecCalendar == InitCalendar /\ [][NextCalendar]_vars

-----------------------------------------------------------------------------
(* AStockCalendar: one instance shared by two threads, one of them running *)
(* refresh_calendar statement by statement, the other one querying         *)

\* `self._trading_days = self._fetch_trading_calendar(start_year, end_year)`
WriterFetch ==
    /\ writer = NoWriter
    /\ \E start_year \in Years, end_year \in Years :
         \E o \in Outcomes(start_year, end_year) :
            trading_days' = Some(fetch_trading_calendar(start_year, end_year, o))
    /\ writer' = "holidays"
    /\ UNCHANGED <<holidays, cache_file, call>>
    /\ UNCHANGED <<codeVars, validatorVars>>

\* `self._holidays = self._get_holidays_from_trading_days()`
WriterHolidays ==
    /\ writer = "holidays"
    /\ holidays' = Some(get_holidays_from_trading_days(trading_days))
    /\ writer' = "save"
    /\ UNCHANGED <<trading_days, cache_file, call>>
    /\ UNCHANGED <<codeVars, validatorVars>>

\* `self._save_calendar_cache()`
WriterSave ==
    /\ writer = "save"
    /\ cache_file' = Some(Snapshot(IF trading_days = None THEN <<>> ELSE trading_days[1],
                                   IF holidays = None THEN <<>> ELSE holidays[1]))
    /\ writer' = NoWriter
    /\ UNCHANGED <<trading_days, holidays, call>>
    /\ UNCHANGED <<codeVars, validatorVars>>

\* the other thread's queries run between two statements of the refresh
NextThreads ==
    \/ WriterFetch
    \/ WriterHolidays
    \/ WriterSave
    \/ IsTradingDay
    \/ GetHolidays
    \/ Return

SpecThreads == InitCalendar /\ [][NextThreads]_vars

-----------------------------------------------------------------------------
(* AStockDataValidator: the overall score of a report                      *)

Min2(a, b) == IF a < b THEN a ELSE b

Max2(a, b) == IF a > b THEN a ELSE b

\* what a method hands back: a value, or the exception it lets through
Value(v) == [ret |-> Some(v), raised |-> "none"]

Raise(e) == [ret |-> None, raised |-> e]

\* the score with no deduction capped and no floor under it
ScoreUnbounded(rep) ==
    IF ~rep.continuity_check.continuous
       /\ "total_gaps" \notin DOMAIN rep.continuity_check
    THEN Raise("KeyError")
    ELSE Value(100 - (IF rep.basic_validation.valid THEN 0 ELSE 20)
                   - Len(rep.price_limit_violations) * 5
                   - Len(rep.suspension_days) * 2
                   - Len(rep.volume_validation.issues) * 3
                   - rep.continuity_check.total_gaps * 3)

\* the score with every gap of the continuity check worth 5 points
ScoreGapsFive(rep) ==
    IF ~rep.continuity_check.continuous
       /\ "total_gaps" \notin DOMAIN rep.continuity_check
    THEN Raise("KeyError")
    ELSE Value(Max2(100 - (IF rep.basic_validation.valid THEN 0 ELSE 20)
                        - Min2(Len(rep.price_limit_violations) * 5, 30)
                        - Min2(Len(rep.suspension_days) * 2, 20)
                        - Min2(Len(rep.volume_validation.issues) * 3, 15)
                        - Min2(rep.continuity_check.total_gaps * 5, 15), 0))

\* _calculate_overall_score(report); `continuity['total_gaps']` raises
\* KeyError when the dict has no such key
calculate_overall_score(rep) ==
    LET score1 == IF ~rep.basic_validation.valid THEN 100 - 20 ELSE 100
        violations == rep.price_limit_violations
        score2 == IF violations # <<>>
                  THEN score1 - Min2(Len(violations) * 5, 30) ELSE score1
        suspensions == rep.suspension_days
        score3 == IF suspensions # <<>>
                  THEN score2 - Min2(Len(suspensions) * 2, 20) ELSE score2
        volume_issues == rep.volume_validation.issues
        score4 == IF volume_issues # <<>>
                  THEN score3 - Min2(Len(volume_issues) * 3, 15) ELSE score3
        continuity == rep.continuity_check
    IN  IF ~continuity.continuous
        THEN IF "total_gaps" \notin DOMAIN continuity
             THEN Raise("KeyError")
             ELSE Value(Max2(score4 - Min2(continuity.total_gaps * 3, 15), 0))
        ELSE Value(Max2(score4, 0))

\* how many findings of each kind the reports handed to the score hold
MaxViolations == 7

MaxSuspensions == 11

MaxIssues == 6

MaxGaps == 6

\* a list of n findings (the score reads only the length of each list)
Findings(n) == [i \in 1..n |-> [type |-> "finding"]]

\* check_data_continuity's value for a series that is not empty, with n gaps
Continuity(n) == [continuous |-> n = 0, gaps |-> Findings(n), total_gaps |-> n]

\* check_data_continuity's value for an empty series
ContinuityOfEmpty == [continuous |-> FALSE, gaps |-> <<>>]

\* the report dict get_validation_report builds before it scores it (the
\* clock reading 'validation_date' is left out)
MakeReport(symbol, start_date, end_date, basic, violations, suspensions, volume, continuity) ==
    [symbol                 |-> symbol,
     date_range             |-> [start |-> start_date, end |-> end_date],
     basic_validation       |-> basic,
     price_limit_violations |-> violations,
     suspension_days        |-> suspensions,
     volume_validation      |-> volume,
     continuity_check       |-> continuity,
     overall_score          |-> 0]

\* the reports of the series that are not empty, by their numbers of findings
Reports ==
    { MakeReport(NoCode, <<>>, <<>>, [valid |-> v], Findings(nv), Findings(ns),
                 [valid |-> ni = 0, issues |-> Findings(ni)], Continuity(ng)) :
        v \in BOOLEAN, nv \in 0..MaxViolations, ns \in 0..MaxSuspensions,
        ni \in 0..MaxIssues, ng \in 0..MaxGaps }

\* the report of the empty series
ReportOfEmpty ==
    MakeReport(NoCode, <<>>, <<>>, [valid |-> FALSE], <<>>, <<>>,
               [valid |-> FALSE, issues |-> <<>>], ContinuityOfEmpty)

InitScore ==
    /\ code = NoCode
    /\ op = "none"
    /\ std_code = None
    /\ valid = FALSE
    /\ info = EmptyDict
    /\ CalendarNew
    /\ df = EmptyFrame
    /\ report \in Reports \cup { ReportOfEmpty }
    /\ vcall = NoCall

\* _calculate_overall_score(report)
CalculateOverallScore ==
    /\ vcall = NoCall
    /\ LET r == calculate_overall_score(report)
       IN  vcall' = [NoCall EXCEPT !.op = "_calculate_overall_score",
                                   !.ret = r.ret, !.raised = r.raised]
    /\ UNCHANGED <<df, report>>
    /\ UNCHANGED <<codeVars, calendarVars, threadVars>>

NextScore == CalculateOverallScore

SpecScore == InitScore /\ [][NextScore]_vars

-----------------------------------------------------------------------------
(* AStockDataValidator: the DataFrame and the price-limit check            *)

\* A DataFrame is its set of columns and its rows in their order; a row is
\* its index (a date) and a number in each column.  Prices are whole numbers
\* here, on which Python's float arithmetic is exact.
Columns == {"Open", "Close", "High", "Low", "Volume"}

\* df.empty: no row or no column
empty(frame) == frame.rows = <<>> \/ frame.columns = {}

\* limit_up_down, each rate in thousandths
limit_up_down ==
    [ST |-> 50, normal |-> 100, new |-> 440, kcb |-> 200, cyb |-> 200, bj |-> 300]

\* the 0.001 added to the limit rate, in thousandths
Tolerance == 1

\* _get_limit_rate(market, prefix)
get_limit_rate(market, prefix) ==
    IF prefix = <<"6","8","8">> \/ prefix = <<"6","8","9">> THEN limit_up_down.kcb
    ELSE IF prefix = <<"3","0","0">> \/ prefix = <<"3","0","1">> THEN limit_up_down.cyb
    ELSE IF market = BJ THEN limit_up_down.bj
    ELSE limit_up_down.normal

\* df.sort_index(): the rows in ascending order of their dates
RECURSIVE InsertRow(_, _)
InsertRow(r, rows) ==
    IF rows = <<>> THEN <<r>>
    ELSE IF r.date < Head(rows).date THEN <<r>> \o rows
    ELSE <<Head(rows)>> \o InsertRow(r, Tail(rows))

RECURSIVE sort_index(_)
sort_index(rows) ==
    IF rows = <<>> THEN <<>>
    ELSE InsertRow(rows[Len(rows)], sort_index(SubSeq(rows, 1, Len(rows) - 1)))

Abs(x) == IF x < 0 THEN 0 - x ELSE x

\* `abs(change_pct) > limit_rate + 0.001` for a row after the first: a zero
\* prev_close makes change_pct infinite, or NaN (skipped) when Close is zero
ExceedsLimit(close, prev_close, limit_rate) ==
    IF prev_close = 0 THEN close # 0
    ELSE Abs(close - prev_close) * 1000 > (limit_rate + Tolerance) * Abs(prev_close)

\* the loop of validate_price_limit over the rows in the order given
RECURSIVE Violations(_, _, _)
Violations(rows, i, limit_rate) ==
    IF i > Len(rows) THEN <<>>
    ELSE (IF i > 1 /\ ExceedsLimit(rows[i].Close, rows[i - 1].Close, limit_rate)
          THEN << [date           |-> strftime(rows[i].date),
                   price          |-> rows[i].Close,
                   prev_close     |-> rows[i - 1].Close,
                   limit_rate     |-> limit_rate,
                   violation_type |-> "exceed_limit"] >>
          ELSE <<>>)
         \o Violations(rows, i + 1, limit_rate)

\* the price-limit check run over the rows as they come, unsorted
PriceLimitUnsorted(frame, symbol) ==
    IF empty(frame) \/ "Close" \notin frame.columns THEN <<>>
    ELSE LET stock_info == get_market_info(symbol)
             market == IF stock_info = EmptyDict THEN SZ ELSE stock_info.market
             prefix == IF stock_info = EmptyDict THEN <<"0","0","0">> ELSE stock_info.prefix
         IN  Violations(frame.rows, 1, get_limit_rate(market, prefix))

\* validate_price_limit(df, symbol)
validate_price_limit(frame, symbol) ==
    IF empty(frame) \/ "Close" \notin frame.columns THEN <<>>
    ELSE LET stock_info == get_market_info(symbol)
             market == IF stock_info = EmptyDict THEN SZ ELSE stock_info.market
             prefix == IF stock_info = EmptyDict THEN <<"0","0","0">> ELSE stock_info.prefix
             limit_rate == get_limit_rate(market, prefix)
         IN  Violations(sort_index(frame.rows), 1, limit_rate)

\* how many rows a frame of the price-limit check holds, at most
MaxRows == 3

\* the closing prices: 1000 and moves of 10.1, 12, 20.2 and 30.2 per cent
Closes == {1000, 1101, 1120, 1202, 1302}

\* a row whose four prices are the closing price
Bar(date, close) ==
    [date |-> date, Open |-> close, High |-> close, Low |-> close, Close |-> close,
     Volume |-> 1000]

\* the sequences of at most n rows on different days of 1..MaxRows
RECURSIVE BarSeqs(_)
BarSeqs(n) ==
    IF n = 0 THEN { <<>> }
    ELSE LET shorter == BarSeqs(n - 1)
         IN  shorter \cup
             { Append(s, Bar(d, c)) :
                 s \in { t \in shorter : Len(t) = n - 1 },
                 d \in 1..MaxRows, c \in Closes }

DistinctDates(rows) ==
    \A i \in 1..Len(rows) : \A j \in 1..Len(rows) : i # j => rows[i].date # rows[j].date

\* the frames handed to the price-limit check: all five columns, or all but
\* Close
CloseFrames ==
    { [columns |-> Columns, rows |-> s] : s \in { t \in BarSeqs(MaxRows) : DistinctDates(t) } }
    \cup { [columns |-> Columns \ {"Close"}, rows |-> <<Bar(1, 1000), Bar(2, 1120)>>] }

Symbol(t) == [kind |-> "str", int |-> 0, str |-> t]

\* the symbols: one per board, a STAR code stated to be on the Beijing
\* exchange, and two that standardize rejects
Symbols ==
    { Symbol(<<"6","0","0","0","0","0">>), Symbol(<<"0","0","2","4","1","5">>),
      Symbol(<<"3","0","0","7","5","0">>), Symbol(<<"6","8","8","9","8","1">>),
      Symbol(<<"8","3","0","7","9","9">>),
      Symbol(<<"6","8","8","9","8","1",".","B","J">>),
      Symbol(<<"9","9","9","9","9","9">>), Symbol(<<"i","n","v","a","l","i","d">>) }

InitPriceLimit ==
    /\ code \in Symbols
    /\ op = "none"
    /\ std_code = None
    /\ valid = FALSE
    /\ info = EmptyDict
    /\ CalendarNew
    /\ df \in CloseFrames
    /\ report = None
    /\ vcall = NoCall

\* validate_price_limit(df, symbol)
ValidatePriceLimit ==
    /\ vcall = NoCall
    /\ vcall' = [NoCall EXCEPT !.op = "validate_price_limit",
                               !.ret = validate_price_limit(df, code)]
    /\ UNCHANGED <<df, report>>
    /\ UNCHANGED <<codeVars, calendarVars, threadVars>>

NextPriceLimit == ValidatePriceLimit

SpecPriceLimit == InitPriceLimit /\ [][NextPriceLimit]_vars

-----------------------------------------------------------------------------
(* AStockDataValidator: the other checks and the report                    *)

required_columns == <<"Open", "Close", "High", "Low", "Volume">>

price_columns == <<"Open", "Close", "High", "Low">>

\* the dates of the index, in row order
Index(frame) == [i \in 1..Len(frame.rows) |-> frame.rows[i].date]

\* how many rows a mask over the rows selects: mask.sum()
CountRows(mask) == Cardinality({ i \in DOMAIN mask : mask[i] })

\* one entry of errors or of warnings
Entry(type, columns, count) == [type |-> type, columns |-> columns, count |-> count]

\* a price-logic mask that compares High with Low only
InvalidHighLow(row) == row.High < row.Low

\* the price-logic mask of validate_stock_data
invalid_price(row) ==
    \/ row.High < row.Low
    \/ row.High < row.Open
    \/ row.High < row.Close
    \/ row.Low > row.Open
    \/ row.Low > row.Close

\* _generate_data_summary for a frame that is not empty, on a calendar list
\* td (the averages and the volatility are left out)
generate_data_summary(frame, td) ==
    LET idx == Index(frame)
        closes == { frame.rows[i].Close : i \in 1..Len(frame.rows) }
        volumes == { frame.rows[i].Volume : i \in 1..Len(frame.rows) }
        least(S) == CHOOSE x \in S : \A y \in S : x <= y
        most(S)  == CHOOSE x \in S : \A y \in S : x >= y
        expected_days == Len(Between(td, datetime(Min(idx), Midnight),
                                     datetime(Max(idx), Midnight)))
    IN  [total_days   |-> Len(frame.rows),
         start_date   |-> strftime(Min(idx)),
         end_date     |-> strftime(Max(idx)),
         missing_days |-> Max2(0, expected_days - Len(frame.rows)),
         price_range  |-> IF "Close" \in frame.columns
                          THEN [min_price |-> least(closes), max_price |-> most(closes)]
                          ELSE EmptyDict,
         volume_stats |-> IF "Volume" \in frame.columns
                          THEN [min_volume |-> least(volumes), max_volume |-> most(volumes)]
                          ELSE EmptyDict]

\* validate_stock_data(df, symbol), the calendar list being td once the
\* summary has asked it for its count
validate_stock_data(frame, symbol, td) ==
    IF empty(frame)
    THEN [valid |-> FALSE, errors |-> <<Entry("empty", <<>>, 0)>>, warnings |-> <<>>,
          summary |-> EmptyDict]
    ELSE LET present == SelectSeq(price_columns, LAMBDA c : c \in frame.columns)
             missing_columns == SelectSeq(required_columns, LAMBDA c : c \notin frame.columns)
             BadPrice(c) == CountRows([i \in 1..Len(frame.rows) |-> frame.rows[i][c] <= 0])
             price_warnings ==
                 SelectSeq([i \in 1..Len(present) |->
                               Entry("invalid_price", <<present[i]>>, BadPrice(present[i]))],
                           LAMBDA e : e.count > 0)
             logic_errors == CountRows([i \in 1..Len(frame.rows) |-> invalid_price(frame.rows[i])])
             bad_volume == CountRows([i \in 1..Len(frame.rows) |-> frame.rows[i].Volume < 0])
             errors ==
                 (IF missing_columns # <<>>
                  THEN <<Entry("missing_columns", missing_columns, 0)>> ELSE <<>>)
                 \o (IF Len(present) = Len(price_columns) /\ logic_errors > 0
                     THEN <<Entry("price_logic", <<>>, logic_errors)>> ELSE <<>>)
             warnings ==
                 price_warnings
                 \o (IF "Volume" \in frame.columns /\ bad_volume > 0
                     THEN <<Entry("invalid_volume", <<"Volume">>, bad_volume)>> ELSE <<>>)
         IN  [valid |-> errors = <<>>, errors |-> errors, warnings |-> warnings,
              summary |-> generate_data_summary(frame, td)]

\* check_suspension_days(df, symbol, start_date, end_date) on a calendar list
\* td
check_suspension_days(frame, start_date, end_date, td) ==
    IF empty(frame) THEN <<>>
    ELSE LET expected_trading_days ==
                 Between(td, datetime(to_datetime(start_date), Midnight),
                         datetime(to_datetime(end_date), Midnight))
             actual_dates == SeqToSet(Index(frame))
             missing == SelectSeq(expected_trading_days, LAMBDA d : d \notin actual_dates)
         IN  [i \in 1..Len(missing) |->
                 [date |-> strftime(missing[i]), type |-> "suspension"]]

\* the window of the rolling mean and standard deviation
RollingWindow == 20

\* the sum of f over the window that ends at row i
RECURSIVE WindowSum(_, _, _)
WindowSum(f, i, k) == IF k = 0 THEN 0 ELSE f[i] + WindowSum(f, i - 1, k - 1)

\* volume < rolling mean * 0.1 and volume > 0, at row i
LowVolume(volume, i) ==
    /\ i >= RollingWindow
    /\ volume[i] * 10 * RollingWindow < WindowSum(volume, i, RollingWindow)
    /\ volume[i] > 0

\* volume > rolling mean + 3 * rolling std (the sample deviation), at row i
HighVolume(volume, i) ==
    /\ i >= RollingWindow
    /\ LET n == RollingWindow
           S == WindowSum(volume, i, n)
           Q == WindowSum([j \in 1..Len(volume) |-> volume[j] * volume[j]], i, n)
       IN  /\ n * volume[i] > S
           /\ (n - 1) * (n * volume[i] - S) * (n * volume[i] - S) > 9 * n * (n * Q - S * S)

\* validate_volume_pattern(df)
validate_volume_pattern(frame) ==
    IF empty(frame) \/ "Volume" \notin frame.columns
    THEN [valid |-> FALSE, issues |-> <<>>]
    ELSE LET volume == [i \in 1..Len(frame.rows) |-> frame.rows[i].Volume]
             Count(P(_)) == Cardinality({ i \in 1..Len(volume) : P(i) })
             low  == Count(LAMBDA i : LowVolume(volume, i))
             zero == Count(LAMBDA i : volume[i] = 0)
             high == Count(LAMBDA i : HighVolume(volume, i))
             issues ==
                 (IF Len(volume) > RollingWindow /\ low > 0
                  THEN <<[type |-> "low_volume", count |-> low]>> ELSE <<>>)
                 \o (IF zero > 0 THEN <<[type |-> "zero_volume", count |-> zero]>> ELSE <<>>)
                 \o (IF Len(volume) > RollingWindow /\ high > 0
                     THEN <<[type |-> "high_volume", count |-> high]>> ELSE <<>>)
         IN  [valid |-> issues = <<>>, issues |-> issues]

\* one gap of check_data_continuity, made of the missing days current_gap
Gap(current_gap) ==
    IF Len(current_gap) > 1
    THEN [type |-> "continuous_gap", start |-> strftime(current_gap[1]),
          end |-> strftime(current_gap[Len(current_gap)]), days |-> Len(current_gap)]
    ELSE [type |-> "single_gap", date |-> strftime(current_gap[1])]

\* every missing day reported as a gap of its own
RECURSIVE SingleGaps(_, _, _)
SingleGaps(sorted_missing, i, current_gap) ==
    IF i > Len(sorted_missing) THEN <<>>
    ELSE <<Gap(<<sorted_missing[i]>>)>> \o SingleGaps(sorted_missing, i + 1, current_gap)

\* the grouping loop over sorted_missing from position i on, current_gap
\* being the group under way
RECURSIVE GroupGaps(_, _, _)
GroupGaps(sorted_missing, i, current_gap) ==
    IF i > Len(sorted_missing)
    THEN IF current_gap # <<>> THEN <<Gap(current_gap)>> ELSE <<>>
    ELSE IF current_gap = <<>>
         THEN GroupGaps(sorted_missing, i + 1, <<sorted_missing[i]>>)
         ELSE IF sorted_missing[i] - sorted_missing[i - 1] = 1
              THEN GroupGaps(sorted_missing, i + 1, Append(current_gap, sorted_missing[i]))
              ELSE <<Gap(current_gap)>>
                   \o GroupGaps(sorted_missing, i + 1, <<sorted_missing[i]>>)

\* check_data_continuity(df, symbol) on a calendar list td
check_data_continuity(frame, td) ==
    IF empty(frame) THEN ContinuityOfEmpty
    ELSE LET start_date == Min(Index(frame))
             end_date   == Max(Index(frame))
             expected_days == Between(td, datetime(start_date, Midnight),
                                      datetime(end_date, Midnight))
             missing_days == SeqToSet(expected_days) \ SeqToSet(Index(frame))
             sorted_missing == SelectSeq(expected_days, LAMBDA d : d \in missing_days)
             gaps == GroupGaps(sorted_missing, 1, <<>>)
         IN  [continuous |-> gaps = <<>>, gaps |-> gaps, total_gaps |-> Len(gaps)]

\* how many rows a frame handed to the report holds, at most
MaxReportRows == 2

\* the dates of its rows: three days of the first week, one of the next year
FrameDates == {1, 2, 4, DaysPerYear + 1}

\* the rows: a quiet day, a day 12% up, a day without volume, a day whose
\* High is under its Low
RowKinds == {"flat", "up", "halt", "bad"}

Row(date, kind) ==
    [date   |-> date,
     Open   |-> 1000,
     High   |-> IF kind = "up" THEN 1120 ELSE IF kind = "bad" THEN 990 ELSE 1000,
     Low    |-> 1000,
     Close  |-> IF kind = "up" THEN 1120 ELSE 1000,
     Volume |-> IF kind = "halt" THEN 0 ELSE 1000]

RECURSIVE RowSeqs(_)
RowSeqs(n) ==
    IF n = 0 THEN { <<>> }
    ELSE LET shorter == RowSeqs(n - 1)
         IN  shorter \cup
             { Append(s, Row(d, k)) :
                 s \in { t \in shorter : Len(t) = n - 1 },
                 d \in FrameDates, k \in RowKinds }

\* the frames handed to the report: pd.DataFrame(), frames of all five
\* columns with one row a day, and two frames that lack columns
ReportFrames ==
    { EmptyFrame }
    \cup { [columns |-> Columns, rows |-> s] :
             s \in { t \in RowSeqs(MaxReportRows) : t # <<>> /\ DistinctDates(t) } }
    \cup { [columns |-> Columns \ {"Volume"}, rows |-> <<Row(1, "flat"), Row(2, "up")>>],
           [columns |-> {"Open", "Volume"}, rows |-> <<Row(2, "flat"), Row(4, "halt")>>] }

ReportSymbols ==
    { Symbol(<<"6","0","0","0","0","0">>), Symbol(<<"6","8","8","9","8","1">>) }

\* the start_date and end_date arguments
QueryDates == { <<FirstYear, 1>>, <<FirstYear, 5>>, <<LastYear, 2>> }

\* what AStockCalendar() finds in its default cache directory: no snapshot,
\* or the snapshot of a refresh over all the years, or over the first one
ValidatorCalendars ==
    { None,
      Some(fetch_trading_calendar(FirstYear, LastYear, [y \in Years |-> "asc"])),
      Some(fetch_trading_calendar(FirstYear, FirstYear, [y \in {FirstYear} |-> "raise"])) }

\* AStockDataValidator(): self.calendar = AStockCalendar(), which loads one
\* of the snapshots `calendars`; the caller holds a symbol and a series
NewValidator(frames, symbols, calendars) ==
    /\ code \in symbols
    /\ op = "none"
    /\ std_code = None
    /\ valid = FALSE
    /\ info = EmptyDict
    /\ trading_days \in calendars
    /\ holidays = IF trading_days = None THEN None
                  ELSE Some(get_holidays_from_trading_days(trading_days))
    /\ cache_file = IF trading_days = None THEN None
                    ELSE Some(Snapshot(trading_days[1], holidays[1]))
    /\ call = Idle
    /\ writer = NoWriter
    /\ df \in frames
    /\ report = None
    /\ vcall = NoCall

InitValidator == NewValidator(ReportFrames, ReportSymbols, ValidatorCalendars)

\* a validator method returned v, or let the exception e through
VReturned(name, start_date, end_date, r, o) ==
    [op |-> name, start |-> start_date, end |-> end_date, ret |-> r.ret,
     raised |-> r.raised, source |-> o]

\* what the source does while the validator's calendar refreshes itself
\* over start_year..end_year: it raises, or answers every year with its
\* table, or with an empty one
SourceAnswers(start_year, end_year) ==
    IF start_year > end_year THEN { NoSource }
    ELSE { [y \in start_year..end_year |-> k] : k \in {"raise", "asc", "empty"} }

\* a query of self.calendar for start_year..end_year under the source
\* outcome o: the refresh, if the calendar holds no list
CalendarQuery(start_year, end_year, o) ==
    /\ o \in (IF trading_days = None THEN SourceAnswers(start_year, end_year)
              ELSE { NoSource })
    /\ LazyRefresh(start_year, end_year, o)

\* the list self.calendar holds after that query
ListAfter(start_year, end_year, o) ==
    IF trading_days = None THEN fetch_trading_calendar(start_year, end_year, o)
    ELSE trading_days[1]

\* the years of df's first and last date
FrameYears == [start |-> Year(Min(Index(df))), end |-> Year(Max(Index(df)))]

\* the source outcomes a check of df may meet when its first query of the
\* calendar is the one for df's own date range; an empty df is not looked up
FrameOutcomes ==
    IF empty(df) \/ trading_days # None THEN { NoSource }
    ELSE SourceAnswers(FrameYears.start, FrameYears.end)

FrameQuery(o) ==
    IF empty(df) THEN UNCHANGED <<trading_days, holidays, cache_file>>
    ELSE CalendarQuery(FrameYears.start, FrameYears.end, o)

\* the calendar list the checks of df then work on
CalendarList(o) ==
    IF empty(df) THEN <<>> ELSE ListAfter(FrameYears.start, FrameYears.end, o)

\* validate_stock_data(df, symbol)
ValidateStockData ==
    /\ vcall = NoCall
    /\ \E o \in FrameOutcomes :
         /\ FrameQuery(o)
         /\ \E td \in { CalendarList(o) } :
              vcall' = VReturned("validate_stock_data", <<>>, <<>>,
                                 Value(validate_stock_data(df, code, td)), o)
    /\ UNCHANGED <<df, report, call>>
    /\ UNCHANGED <<codeVars, threadVars>>

\* check_suspension_days(df, symbol, start_date, end_date)
CheckSuspensionDays ==
    /\ vcall = NoCall
    /\ \E start_date \in QueryDates, end_date \in QueryDates :
         LET start_year == Year(to_datetime(start_date))
             end_year   == Year(to_datetime(end_date))
         IN  IF empty(df)
             THEN /\ UNCHANGED <<trading_days, holidays, cache_file>>
                  /\ vcall' = VReturned("check_suspension_days", start_date, end_date,
                                        Value(<<>>), NoSource)
             ELSE \E o \in (IF trading_days = None
                            THEN SourceAnswers(start_year, end_year) ELSE { NoSource }) :
                    /\ CalendarQuery(start_year, end_year, o)
                    /\ \E td \in { ListAfter(start_year, end_year, o) } :
                         vcall' = VReturned("check_suspension_days", start_date, end_date,
                                            Value(check_suspension_days(df, start_date,
                                                                        end_date, td)), o)
    /\ UNCHANGED <<df, report, call>>
    /\ UNCHANGED <<codeVars, threadVars>>

\* validate_volume_pattern(df)
ValidateVolumePattern ==
    /\ vcall = NoCall
    /\ vcall' = VReturned("validate_volume_pattern", <<>>, <<>>,
                          Value(validate_volume_pattern(df)), NoSource)
    /\ UNCHANGED <<df, report>>
    /\ UNCHANGED <<codeVars, calendarVars, threadVars>>

\* check_data_continuity(df, symbol)
CheckDataContinuity ==
    /\ vcall = NoCall
    /\ \E o \in FrameOutcomes :
         /\ FrameQuery(o)
         /\ \E td \in { CalendarList(o) } :
              vcall' = VReturned("check_data_continuity", <<>>, <<>>,
                                 Value(check_data_continuity(df, td)), o)
    /\ UNCHANGED <<df, report, call>>
    /\ UNCHANGED <<codeVars, threadVars>>

\* get_validation_report(df, symbol, start_date, end_date): the five checks
\* in the order the dict literal runs them (the first query of the calendar
\* is the count validate_stock_data's summary asks for), then the score; an
\* exception of _calculate_overall_score is not caught
GetValidationReport ==
    /\ vcall = NoCall
    /\ \E o \in FrameOutcomes :
         /\ FrameQuery(o)
         /\ \E td \in { CalendarList(o) } :
            \E basic \in { validate_stock_data(df, code, td) } :
            \E violations \in { validate_price_limit(df, code) } :
            \E volume \in { validate_volume_pattern(df) } :
            \E continuity \in { check_data_continuity(df, td) } :
            \E start_date \in QueryDates, end_date \in QueryDates :
            \E rep \in { MakeReport(code, start_date, end_date, basic, violations,
                                    check_suspension_days(df, start_date, end_date, td),
                                    volume, continuity) } :
            \E r \in { calculate_overall_score(rep) } :
               /\ report' = IF r.raised = "none"
                            THEN [rep EXCEPT !.overall_score = r.ret[1]]
                            ELSE None
               /\ vcall' = VReturned("get_validation_report", start_date, end_date, r, o)
    /\ UNCHANGED <<df, call>>
    /\ UNCHANGED <<codeVars, threadVars>>

NextValidator ==
    \/ ValidateStockData
    \/ ValidatePriceLimit
    \/ CheckSuspensionDays
    \/ ValidateVolumePattern
    \/ CheckDataContinuity
    \/ GetValidationReport

SpecValidator == InitValidator /\ [][NextValidator]_vars

-----------------------------------------------------------------------------
(* AStockDataValidator: one validator asked for several reports            *)

\* a validator made where no snapshot lies: its calendar holds no list
InitSession == NewValidator(ReportFrames, ReportSymbols, { None })

\* the caller takes the report and comes back with another series
NextSeries ==
    /\ vcall # NoCall
    /\ vcall' = NoCall
    /\ df' \in ReportFrames
    /\ report' = None
    /\ UNCHANGED <<codeVars, calendarVars, threadVars>>

NextSession == GetValidationReport \/ NextSeries

SpecSession == InitSession /\ [][NextSession]_vars

-----------------------------------------------------------------------------
(* AStockDataValidator: validate_stock_data on rows of every shape         *)

\* the values a price field takes: zero and three prices around 1000
BasicPrices == {0, 990, 1000, 1010}

\* the values Volume takes: a negative one, zero, a usual one
BasicVolumes == {0 - 500, 0, 1000}

\* the first row of a frame, on 2024-01-03: a row whose four prices are
\* equal, or a row whose prices are all different, both with Low <= Open,
\* Close <= High
BaseRows ==
    { [date |-> 2, Open |-> 1000, High |-> 1000, Low |-> 1000, Close |-> 1000,
       Volume |-> 1000],
      [date |-> 2, Open |-> 1000, High |-> 1010, Low |-> 990, Close |-> 1000,
       Volume |-> 1000] }

\* the second row: any prices and volume, on the same day or on the next
OtherRows ==
    [date : {2, 3}, Open : BasicPrices, High : BasicPrices, Low : BasicPrices,
     Close : BasicPrices, Volume : BasicVolumes]

\* frames of all five columns and two rows, in either order
BasicFrames ==
    { [columns |-> Columns, rows |-> s] :
        s \in UNION { { <<b, r>>, <<r, b>> } : b \in BaseRows, r \in OtherRows } }

\* a validator whose calendar loaded the snapshot of all the years
InitBasic ==
    NewValidator(BasicFrames, { Symbol(<<"6","0","0","0","0","0">>) },
                 { Some(fetch_trading_calendar(FirstYear, LastYear, [y \in Years |-> "asc"])) })

NextBasic == ValidateStockData

SpecBasic == InitBasic /\ [][NextBasic]_vars

-----------------------------------------------------------------------------
(* AStockDataValidator: a series longer than the rolling window            *)

\* one row more than the window of the rolling mean
LongRows == RollingWindow + 1

\* a quiet row with the volume v
VolumeRow(date, v) ==
    [date |-> date, Open |-> 1000, High |-> 1000, Low |-> 1000, Close |-> 1000,
     Volume |-> v]

\* the series in date order: a row a day from 2024-01-01 on, the last one
\* with a twentieth of the volume of the others
LongSeries == [i \in 1..LongRows |-> VolumeRow(i - 1, IF i = LongRows THEN 5 ELSE 100)]

\* the series with its last row moved to position k
MoveLast(k) ==
    SubSeq(LongSeries, 1, k - 1) \o <<LongSeries[LongRows]>>
        \o SubSeq(LongSeries, k, LongRows - 1)

\* the same rows handed over in several orders
LongFrames == { [columns |-> Columns, rows |-> MoveLast(k)] : k \in 1..LongRows }

InitOrder ==
    NewValidator(LongFrames, { Symbol(<<"6","0","0","0","0","0">>) },
                 { Some(fetch_trading_calendar(FirstYear, LastYear, [y \in Years |-> "asc"])) })

NextOrder == GetValidationReport \/ ValidateVolumePattern

SpecOrder == InitOrder /\ [][NextOrder]_vars

-----------------------------------------------------------------------------
(* Claims about AStockCode                                                 *)

\* C1: standardize is idempotent: whenever standardize(x) returned a code c,
\* standardize(c) returns exactly c.
C1_Idempotent ==
    (op = "standardize" /\ std_code # None)
        => standardize(Text(std_code)) = std_code

\* a text that was not canonical has been normalised to a code
C1_Witness ==
    /\ op = "standardize"
    /\ std_code # None
    /\ code.kind = "str"
    /\ code.str # std_code

SentinelTexts ==
    { <<"0","0","0","0","0","0">>, <<"9","9","9","9","9","9">>,
      <<"0","0","0","0","0","0",".","S","Z">>,
      <<"9","9","9","9","9","9",".","S","H">> }

\* C2: the sentinel ids 000000 and 999999, bare or with an explicit exchange
\* ("000000.SZ", "999999.SH"), are rejected: standardize returns absence and
\* is_valid returns false.
C2_SentinelsRejected ==
    (code.kind = "str" /\ code.str \in SentinelTexts)
        => /\ op = "standardize" => std_code = None
           /\ op = "is_valid" => valid = FALSE

\* the three shapes a whole text may have, read case-insensitively and
\* without the surrounding blanks: six digits, six digits with a market
\* suffix (with or without the dot), a market prefix with six digits
AcceptedShape(t) ==
    LET s == upper(strip(t))
    IN  \/ Len(s) = CodeLen /\ DigitsAt(s, 1, CodeLen)
        \/ /\ Len(s) = CodeLen + 2
           /\ DigitsAt(s, 1, CodeLen)
           /\ MarketAt(s, CodeLen + 1)
        \/ /\ Len(s) = CodeLen + 3
           /\ DigitsAt(s, 1, CodeLen)
           /\ s[CodeLen + 1] = "."
           /\ MarketAt(s, CodeLen + 2)
        \/ /\ Len(s) = CodeLen + 2
           /\ MarketAt(s, 1)
           /\ DigitsAt(s, 3, CodeLen)

\* C3: standardize returns absence for every text that is not, as a whole,
\* one of the three accepted shapes (numeric portion longer or shorter than
\* six digits, extra trailing characters, a suffix naming another exchange).
C3_OnlyWholeShapes ==
    (op = "standardize" /\ code.kind = "str" /\ ~AcceptedShape(code.str))
        => std_code = None

\* the market the claim gives a three-digit prefix, None outside its ranges
ClaimedMarket(p) ==
    IF p \in { <<"6","0","0">>, <<"6","0","1">>, <<"6","0","3">>,
               <<"6","0","5">>, <<"6","8","8">>, <<"6","8","9">> } THEN SH
    ELSE IF p \in { <<"0","0","0">>, <<"0","0","1">>, <<"0","0","2">>,
                    <<"0","0","3">>, <<"3","0","0">>, <<"3","0","1">> } THEN SZ
    ELSE IF p[1] = "8" /\ p[2] = "3" THEN BJ
    ELSE None

\* a bare text of exactly six ASCII digits
BareSixDigits(c) ==
    /\ c.kind = "str"
    /\ Len(c.str) = CodeLen
    /\ \A i \in 1..CodeLen : c.str[i] \in AsciiDigits

\* C4: for a bare six-digit input the exchange is inferred from the first
\* three digits: 600/601/603/605/688/689 give SH, 000..003/300/301 give SZ,
\* every prefix 830..839 gives BJ, and any other prefix yields absence.
C4_InferredMarket ==
    (op = "standardize" /\ BareSixDigits(code))
        => LET m == ClaimedMarket(SubSeq(code.str, 1, PrefixLen))
           IN  std_code = IF m = None THEN None ELSE Canonical(code.str, m)

\* C5: every non-absent result of standardize is six ASCII digits, one dot
\* and one of SH, SZ, BJ.
C5_CanonicalForm ==
    (op = "standardize" /\ std_code # None)
        => /\ Len(std_code) = CodeLen + 3
           /\ \A i \in 1..CodeLen : std_code[i] \in AsciiDigits
           /\ std_code[CodeLen + 1] = "."
           /\ SubSeq(std_code, CodeLen + 2, CodeLen + 3) \in Markets

\* C6: empty, None and non-textual arguments (an integer, whatever its
\* digits) yield absence from standardize, false from is_valid and the empty
\* mapping from get_market_info.
C6_NonTextRejected ==
    (code.kind # "str" \/ code.str = <<>>)
        => /\ op = "standardize" => std_code = None
           /\ op = "is_valid" => valid = FALSE
           /\ op = "get_market_info" => info = EmptyDict

\* the board the claim gives a canonical code: decided by the prefix, and by
\* the exchange only between Beijing Exchange and Main Board
ClaimedBoard(c) ==
    LET p == SubSeq(c, 1, PrefixLen)
        m == SubSeq(c, CodeLen + 2, Len(c))
    IN  CASE p \in { <<"0","0","2">>, <<"0","0","3">> } -> SmeBoard
          [] p \in { <<"3","0","0">>, <<"3","0","1">> } -> ChiNext
          [] p \in { <<"6","8","8">>, <<"6","8","9">> } -> StarMarket
          [] OTHER -> IF m = BJ THEN BeijingExchange ELSE MainBoard

\* C7: board classification is total and a function of the canonical code:
\* for every argument standardize accepts, get_market_info returns one
\* board, SME for 002/003, ChiNext for 300/301, STAR for 688/689, Beijing
\* Exchange when the exchange is BJ and Main Board otherwise, and it is the
\* answer get_market_info gives for the canonical code itself.
C7_BoardClassification ==
    (op = "get_market_info" /\ standardize(code) # None)
        => /\ info # EmptyDict
           /\ info.board = ClaimedBoard(standardize(code))
           /\ info = get_market_info(Text(standardize(code)))

\* an SME-prefixed code stated to be on the Beijing exchange was classified
C7_Witness ==
    /\ op = "get_market_info"
    /\ info # EmptyDict
    /\ info.market = BJ
    /\ info.prefix = <<"0","0","2">>

-----------------------------------------------------------------------------
(* Claims about AStockCalendar                                             *)

StrictlyAscending(s) == \A i \in 1..(Len(s) - 1) : s[i] < s[i + 1]

C9_RangeErrorRaised ==
    (call.op = "get_trading_days" /\ call.a > call.b)
        => call.raised = "ValueError"

\* the years of which the population td (None or a list) holds a date
PopulatedYears(td) == IF td = None THEN {} ELSE { Year(d) : d \in SeqToSet(td[1]) }

\* C10: whenever get_trading_days is asked for a span a <= b whose years are
\* not all covered by the current population, it refreshes before it
\* answers.
C10_RefreshWhenUncovered ==
    [][ ( /\ call.op = "idle"
          /\ call'.op = "get_trading_days"
          /\ call'.a <= call'.b
          /\ ~((Year(call'.a)..Year(call'.b)) \subseteq PopulatedYears(trading_days)) )
        => call'.refreshed ]_vars


\* C11: is_trading_day agrees with get_trading_days on the same calendar
\* state: for every date d, with or without a time of day, is_trading_day(d)
\* is true exactly when d's calendar date is in get_trading_days(d, d).
C11_SelfConsistent ==
    call.op = "is_trading_day"
        => (call.ret <=>
              call.a \in SeqToSet(Between(trading_days[1], datetime(call.a, call.at),
                                          datetime(call.a, call.at))))


\* the n-th smallest element of the set S of days, None when S has fewer
NthSmallest(S, n) ==
    IF Cardinality(S) < n THEN None
    ELSE Some(CHOOSE x \in S : Cardinality({ e \in S : e < x }) = n - 1)

NthLargest(S, n) ==
    IF Cardinality(S) < n THEN None
    ELSE Some(CHOOSE x \in S : Cardinality({ e \in S : e > x }) = n - 1)

\* C12: for n >= 1, next_trading_day(date, n) is the n-th smallest populated
\* trading date at or after date and previous_trading_day(date, n) the n-th
\* largest at or before it; absence is returned exactly when fewer than n
\* such dates are populated.
C12_NthTradingDay ==
    /\ call.op = "next_trading_day"
         => call.ret = NthSmallest({ d \in SeqToSet(trading_days[1]) : d >= call.a },
                                   call.n)
    /\ call.op = "previous_trading_day"
         => call.ret = NthLargest({ d \in SeqToSet(trading_days[1]) : d <= call.a },
                                  call.n)

\* the second trading day from a trading day was asked for and is the one
\* after it
C12_Witness ==
    /\ call.op = "next_trading_day"
    /\ call.n = 2
    /\ call.a \in SeqToSet(trading_days[1])
    /\ call.ret # None
    /\ call.ret[1] > call.a + 1


\* the days between the earliest and the latest day of T that are not in T
NonTrading(T) ==
    { d \in Dates : d \notin T /\ (\E e \in T : e < d) /\ (\E e \in T : d < e) }

\* C13: in every populated state the holiday set is the complement of the
\* trading dates within the earliest..latest trading date (disjoint from
\* them, and covering the range together with them), and get_holidays(a, b)
\* returns exactly those non-trading dates that fall in [a, b].
C13_HolidaysComplement ==
    /\ trading_days # None
         => /\ holidays # None
            /\ SeqToSet(holidays[1]) = NonTrading(SeqToSet(trading_days[1]))
            /\ Len(holidays[1]) = Cardinality(SeqToSet(holidays[1]))
    /\ call.op = "get_holidays"
         => /\ SeqToSet(call.ret) =
                  { d \in NonTrading(SeqToSet(trading_days[1])) :
                        call.a <= d /\ d <= call.b }
            /\ Len(call.ret) = Cardinality(SeqToSet(call.ret))

\* get_holidays returned a working day on which the exchange was closed,
\* next to a weekend day
C13_Witness ==
    /\ call.op = "get_holidays"
    /\ \E i \in 1..Len(call.ret) : weekday(call.ret[i]) < WeekendStart
    /\ \E i \in 1..Len(call.ret) : weekday(call.ret[i]) >= WeekendStart


\* the times of day at which the value get_trading_hours returned opens or
\* closes a session
ReturnedTimes(ret) == { ret[1][i].time : i \in 1..Len(ret[1]) }

\* C14: get_trading_hours(date) returns the two sessions 09:30-11:30 and
\* 13:00-15:00 when date is a trading day and absence otherwise, and the
\* sessions agree with is_trading_time, boundaries included: an instant of a
\* trading day is trading time exactly when it lies in what was returned, so
\* the 11:30-13:00 break lies outside it.
C14_TradingHours ==
    call.op = "get_trading_hours"
        => /\ (call.ret = None) <=> (call.a \notin SeqToSet(trading_days[1]))
           /\ call.ret # None
                => /\ ReturnedTimes(call.ret) =
                         { morning_start, morning_end, afternoon_start, afternoon_end }
                   /\ \A t \in ClockTimes :
                         is_trading_time(trading_days[1], datetime(call.a, t))
                            <=> \E i \in 1..(Len(call.ret[1]) - 1) :
                                   /\ i % 2 = 1
                                   /\ Leq(call.ret[1][i], datetime(call.a, t))
                                   /\ Leq(datetime(call.a, t), call.ret[1][i + 1])


\* C15: a refresh never propagates a source failure and never leaves the
\* calendar without data: when the source raises or returns nothing, the
\* refresh populates the calendar with the synthetic calendar of every
\* requested year (the working days that are not in the fixed holiday list).
C15_FallbackOnNothing ==
    LET years == DOMAIN call.source
    IN  ( /\ years # {}
          /\ \/ \E y \in years : call.source[y] = "raise"
             \/ \A y \in years : call.source[y] = "empty" )
        => /\ call.raised = "none"
           /\ trading_days =
                Some(generate_default_calendar(
                        CHOOSE y \in years : \A z \in years : y <= z,
                        CHOOSE y \in years : \A z \in years : y >= z))


\* C16: while one thread runs refresh_calendar and others query the same
\* instance, the refreshed state is swapped in at once: no query observes
\* new trading dates next to the old holidays, or a trading-date sequence
\* that is not set.
C16_NoTornState ==
    /\ call.op = "get_holidays"
         => /\ trading_days # None
            /\ call.ret = Between(get_holidays_from_trading_days(trading_days),
                                  datetime(call.a, Midnight), datetime(call.b, Midnight))
    /\ call.op = "is_trading_day" => trading_days # None


-----------------------------------------------------------------------------
(* Claims about AStockDataValidator                                        *)

\* C17: the overall_score of every report get_validation_report returns
\* lies in [0, 100], however many findings each check produced.
C17_ScoreInRange ==
    /\ (vcall.op = "_calculate_overall_score" /\ vcall.raised = "none")
         => 0 <= vcall.ret[1] /\ vcall.ret[1] <= 100
    /\ (vcall.op = "get_validation_report" /\ vcall.raised = "none")
         => 0 <= report.overall_score /\ report.overall_score <= 100

\* a report whose deductions reach every cap was scored, and got 0
C17_Witness ==
    /\ vcall.op = "_calculate_overall_score"
    /\ vcall.ret = Some(0)
    /\ ~report.basic_validation.valid
    /\ Len(report.price_limit_violations) > 6
    /\ Len(report.suspension_days) > 10
    /\ Len(report.volume_validation.issues) > 5
    /\ report.continuity_check.total_gaps > 5


\* the deduction D the claim gives a report
ClaimedDeduction(rep) ==
    (IF rep.basic_validation.valid THEN 0 ELSE 20)
    + Min2(5 * Len(rep.price_limit_violations), 30)
    + Min2(2 * Len(rep.suspension_days), 20)
    + Min2(3 * Len(rep.volume_validation.issues), 15)
    + Min2(3 * Len(rep.continuity_check.gaps), 15)

\* the reports that hold one finding more than rep does
OneMoreFinding(rep) ==
    { [rep EXCEPT !.basic_validation.valid = FALSE],
      [rep EXCEPT !.price_limit_violations = Append(@, [type |-> "finding"])],
      [rep EXCEPT !.suspension_days = Append(@, [type |-> "finding"])],
      [rep EXCEPT !.volume_validation =
                      [valid |-> FALSE, issues |-> Append(@.issues, [type |-> "finding"])]],
      [rep EXCEPT !.continuity_check = Continuity(@.total_gaps + 1)] }

\* C19: for a series that is not empty the overall score is max(0, 100 - D),
\* D being 20 if the structural check is invalid, plus min(5 x price-limit
\* violations, 30), min(2 x suspension days, 20), min(3 x volume anomaly
\* categories, 15) and min(3 x continuity gaps, 15); one more finding never
\* raises the score.
C19_ScoreFormula ==
    (vcall.op = "_calculate_overall_score" /\ "total_gaps" \in DOMAIN report.continuity_check)
        => /\ vcall.ret = Some(Max2(0, 100 - ClaimedDeduction(report)))
           /\ \A more \in OneMoreFinding(report) :
                 calculate_overall_score(more).ret[1] <= vcall.ret[1]

\* a report with findings of every kind, none of them at its cap, was scored
C19_Witness ==
    /\ vcall.op = "_calculate_overall_score"
    /\ "total_gaps" \in DOMAIN report.continuity_check
    /\ ~report.basic_validation.valid
    /\ Len(report.price_limit_violations) = 2
    /\ Len(report.suspension_days) = 3
    /\ Len(report.volume_validation.issues) = 1
    /\ report.continuity_check.total_gaps = 2
    /\ vcall.ret = Some(55)


\* the limit rate the claim gives a board, in thousandths
ClaimedRate(board) ==
    IF board = StarMarket \/ board = ChiNext THEN 200
    ELSE IF board = BeijingExchange THEN 300
    ELSE 100

\* the row of the latest date before the date of r, in a set of rows
Previous(rows, r) ==
    CHOOSE p \in rows : p.date < r.date /\ \A q \in rows : q.date < r.date => q.date <= p.date

\* the dates the claim has the check report for a set of rows and a rate
ClaimedViolationDates(rows, rate) ==
    { strftime(r.date) :
        r \in { x \in rows :
                  /\ \E p \in rows : p.date < x.date
                  /\ Abs(x.Close - Previous(rows, x).Close) * 1000
                        > (rate + 1) * Previous(rows, x).Close } }

C18_EmptySeriesScoresZero ==
    (vcall.op = "get_validation_report" /\ empty(df)) =>
        /\ vcall.raised = "none"
        /\ report # None
        /\ report.overall_score = 0
        /\ ~report.basic_validation.valid


\* the trading days of the calendar's list inside the requested range
\* [start_date, end_date] on which the series df has no row
MissingSessions(start_date, end_date) ==
    { d \in SeqToSet(trading_days[1]) :
        /\ to_datetime(start_date) <= d
        /\ d <= to_datetime(end_date)
        /\ d \notin SeqToSet(Index(df)) }

\* C21: the suspension check reports exactly the calendar's trading days in
\* the requested range for which the series has no row: one finding per such
\* day, and none for a day that has a row or is no trading day of the range.
C21_SuspensionsExact ==
    (vcall.op = "check_suspension_days" /\ trading_days # None) =>
        /\ vcall.raised = "none"
        /\ { vcall.ret[1][i].date : i \in 1..Len(vcall.ret[1]) }
              = { strftime(d) : d \in MissingSessions(vcall.start, vcall.end) }
        /\ Len(vcall.ret[1]) = Cardinality(MissingSessions(vcall.start, vcall.end))


\* the trading days of the calendar's list between the first and the last
\* date of df on which df has no row
MissingDates ==
    { d \in SeqToSet(trading_days[1]) :
        /\ Min(Index(df)) <= d
        /\ d <= Max(Index(df))
        /\ d \notin SeqToSet(Index(df)) }

\* the dates one reported gap covers, and its size
GapDates(g) ==
    IF g.type = "single_gap" THEN { to_datetime(g.date) }
    ELSE to_datetime(g.start)..to_datetime(g.end)

GapSize(g) == IF g.type = "single_gap" THEN 1 ELSE g.days

RECURSIVE SumSizes(_)
SumSizes(gaps) == IF gaps = <<>> THEN 0 ELSE GapSize(Head(gaps)) + SumSizes(Tail(gaps))

\* C22: the continuity check partitions the missing trading dates into the
\* maximal runs of contiguous dates and reports each run as one gap whose
\* size is the length of the run: the gaps cover the missing dates and only
\* them, no two gaps touch or overlap, and the sizes add up to the number of
\* missing dates (three contiguous missing dates are one gap of size 3).
C22_GapsAreMaximalRuns ==
    (vcall.op = "check_data_continuity" /\ ~empty(df)) =>
        LET gaps == vcall.ret[1].gaps
        IN  /\ vcall.ret[1].total_gaps = Len(gaps)
            /\ vcall.ret[1].continuous = (MissingDates = {})
            /\ UNION { GapDates(gaps[i]) : i \in 1..Len(gaps) } = MissingDates
            /\ \A i \in 1..Len(gaps) :
                 /\ GapDates(gaps[i]) # {}
                 /\ GapSize(gaps[i]) = Cardinality(GapDates(gaps[i]))
                 /\ (gaps[i].type = "single_gap") = (Cardinality(GapDates(gaps[i])) = 1)
            /\ \A i, j \in 1..Len(gaps) :
                 i # j => \A d \in GapDates(gaps[i]) :
                            /\ d \notin GapDates(gaps[j])
                            /\ d + 1 \notin GapDates(gaps[j])
            /\ SumSizes(gaps) = Cardinality(MissingDates)

\* three contiguous missing dates were reported as one gap of size 3
C22_Witness ==
    /\ vcall.op = "check_data_continuity"
    /\ ~empty(df)
    /\ Cardinality(MissingDates) >= 3
    /\ \E i \in 1..Len(vcall.ret[1].gaps) :
         /\ vcall.ret[1].gaps[i].type = "continuous_gap"
         /\ vcall.ret[1].gaps[i].days = 3


\* what get_validation_report returns for df, the symbol and the date range
\* of the last call when it is the first call of a validator whose calendar
\* holds no list, the source behaving as o
FirstCallReport(o) ==
    LET td  == IF empty(df) THEN <<>>
               ELSE fetch_trading_calendar(FrameYears.start, FrameYears.end, o)
        rep == MakeReport(code, vcall.start, vcall.end,
                          validate_stock_data(df, code, td),
                          validate_price_limit(df, code),
                          check_suspension_days(df, vcall.start, vcall.end, td),
                          validate_volume_pattern(df),
                          check_data_continuity(df, td))
        r   == calculate_overall_score(rep)
    IN  [raised |-> r.raised,
         report |-> IF r.raised = "none" THEN [rep EXCEPT !.overall_score = r.ret[1]]
                    ELSE None]

\* C23: validation is stateless with respect to prior calls: what
\* get_validation_report returns for a series, a symbol and a date range is
\* what it returns for them as the first call of the validator (for some
\* behaviour of the calendar source), whatever was validated before.
C23_StatelessAcrossCalls ==
    (vcall.op = "get_validation_report") =>
        \E o \in (IF empty(df) THEN { NoSource }
                  ELSE SourceAnswers(FrameYears.start, FrameYears.end)) :
            /\ vcall.raised = FirstCallReport(o).raised
            /\ report = FirstCallReport(o).report


\* C24: data-quality problems are never errors: for every input series
\* (price-limit breaches, gaps, volume anomalies, missing columns, no rows at
\* all) get_validation_report returns a report carrying the findings and a
\* score, and no exception leaves the call.
C24_ReportNeverRaises ==
    (vcall.op = "get_validation_report") =>
        /\ vcall.raised = "none"
        /\ report # None
        /\ vcall.ret = Some(report.overall_score)


\* low <= open, close <= high in one row
Consistent(row) ==
    /\ row.Low <= row.Open /\ row.Open <= row.High
    /\ row.Low <= row.Close /\ row.Close <= row.High

\* the rows of df that are not consistent
InconsistentRows == { i \in 1..Len(df.rows) : ~Consistent(df.rows[i]) }

\* the price-consistency findings of a result of validate_stock_data
PriceFindings(res) == SelectSeq(res.errors, LAMBDA e : e.type = "price_logic")

ZeroPrice(row) == \E c \in {"Open", "High", "Low", "Close"} : row[c] = 0

\* C26: the basic validity flag is false whenever the series holds a row
\* with negative volume, a row with a zero-valued price field, or a row that
\* is an exact duplicate of another row.
C26_FlagGatesVolumeZeroDuplicate ==
    (vcall.op = "validate_stock_data" /\ df.columns = Columns /\ ~empty(df)) =>
        ((\/ \E i \in 1..Len(df.rows) : df.rows[i].Volume < 0
          \/ \E i \in 1..Len(df.rows) : ZeroPrice(df.rows[i])
          \/ \E i, j \in 1..Len(df.rows) : i # j /\ df.rows[i] = df.rows[j])
         => ~vcall.ret[1].valid)


\* the report of the rows of df handed over in date order, for the symbol
\* and the date range of the last call and the list the calendar holds
ReportInDateOrder ==
    LET frame == [df EXCEPT !.rows = sort_index(df.rows)]
        td  == trading_days[1]
        rep == MakeReport(code, vcall.start, vcall.end,
                          validate_stock_data(frame, code, td),
                          validate_price_limit(frame, code),
                          check_suspension_days(frame, vcall.start, vcall.end, td),
                          validate_volume_pattern(frame),
                          check_data_continuity(frame, td))
    IN  [rep EXCEPT !.overall_score = calculate_overall_score(rep).ret[1]]

\* C27: the validator does not depend on the order of the incoming rows:
\* the report of a series is the report of the same rows in date order (so
\* any two permutations of a series get the same findings of every check and
\* the same overall score).
C27_OrderIndependent ==
    (vcall.op = "get_validation_report" /\ ~empty(df)) => report = ReportInDateOrder


\* the dates the suspension findings of the report name
SuspensionDates == { report.suspension_days[i].date : i \in 1..Len(report.suspension_days) }

\* the gaps of the report that cover the date t
GapsCovering(t) ==
    { i \in 1..Len(report.continuity_check.gaps) :
        to_datetime(t) \in GapDates(report.continuity_check.gaps[i]) }

\* C28: within one report the continuity gaps are built from the
\* missing-session dates of the suspension check: every date a gap covers is
\* a suspension day of the requested range, and every suspension day is
\* covered by exactly one gap, whatever the rows of the series are relative
\* to the requested range.
C28_GapsFromSuspensions ==
    (vcall.op = "get_validation_report" /\ report # None) =>
        /\ \A i \in 1..Len(report.continuity_check.gaps) :
             \A d \in GapDates(report.continuity_check.gaps[i]) :
                 strftime(d) \in SuspensionDates
        /\ \A t \in SuspensionDates : Cardinality(GapsCovering(t)) = 1


-----------------------------------------------------------------------------
(* Claims about the calendar's population and its snapshot                 *)

\* the query operations of the calendar
QueryOps ==
    { "is_trading_day", "get_trading_days", "count_trading_days", "next_trading_day",
      "previous_trading_day", "get_holidays" }

\* C29: once the calendar is Populated, is_trading_day, get_trading_days,
\* count_trading_days, next_trading_day, previous_trading_day and
\* get_holidays do not contact the source and leave the trading-date list, the
\* holiday list and the snapshot as they are; only refresh_calendar changes
\* them.
C29_QueriesServedFromMemory ==
    [][ trading_days # None =>
          /\ (call = Idle /\ call'.op \in QueryOps) =>
                 /\ call'.source = NoSource
                 /\ ~call'.refreshed
                 /\ UNCHANGED <<trading_days, holidays, cache_file>>
          /\ (<<trading_days, holidays, cache_file>>' # <<trading_days, holidays, cache_file>>) =>
                 call'.op = "refresh_calendar" ]_vars

\* a Populated calendar whose list came from the source answered
\* get_holidays and count_trading_days from memory
C29_Witness ==
    /\ trading_days # None
    /\ trading_days[1] = SinaRows(FirstYear)
    /\ call.op \in {"get_holidays", "count_trading_days"}
    /\ ~call.refreshed
    /\ call.source = NoSource


\* a list of dates as the snapshot file spells it
Spelled(lst) == [i \in 1..Len(lst) |-> strftime(lst[i])]

=============================================================================
